---------------------------- MODULE Spec2Model ----------------------------
(***************************************************************************)
(* Model of compression/lossless.py: RunLengthEncoding, HuffmanCoding,     *)
(* GolombCoding and LZWCoding.                                             *)
(*                                                                         *)
(* A Python str is modelled as a sequence of code points (ord of each      *)
(* character): "4A" is <<52, 65>>.  chr and ord are then the identity on   *)
(* 0..1114111, and every text conversion the code performs (str(count),    *)
(* int(count), format(r, '0kb'), int(bits, 2)) is computed digit by digit. *)
(* A call that raises is modelled by a result whose field raised names the *)
(* exception; raised = "none" is a normal return.                          *)
(***************************************************************************)
EXTENDS Integers, Sequences, FiniteSets, TLC

VARIABLES
    rle_data,       \* argument of the last RunLengthEncoding.encode call
    rle_encoded,    \* what that call returned
    rle_decoded,    \* result of RunLengthEncoding.decode(rle_encoded)
    rle_pc          \* "idle" | "encoded" | "decoded"

VARIABLES
    huff_text,        \* argument of the last HuffmanCoding.compress call
    huff_ret,         \* what it returned: encoded, codes, freq (or raised)
    huff_self_codes,  \* the object's field self.codes
    huff_bits,        \* the bit-string given to HuffmanCoding.decode
    huff_decoded,     \* result of decode(huff_bits, huff_ret.codes)
    huff_pc           \* "idle" | "compressed" | "raised" | "decoded" |
                      \* "decoded_truncated"

\* Two threads, each making one HuffmanCoding.compress call.
VARIABLES
    conc_self_codes,  \* the field self.codes of each HuffmanCoding object
    conc_obj,         \* the object each thread calls compress on
    conc_text,        \* the argument of each thread's call
    conc_local,       \* the call's locals freq, the codes built, encoded
    conc_ret,         \* what the call returned (or raised)
    conc_pc           \* "idle" | "built" | "assigned" | "encoded" |
                      \* "returned" | "raised"

VARIABLES
    golomb_n,         \* arguments of the last GolombCoding.encode call
    golomb_m,
    golomb_codeword,  \* what it returned (or raised)
    golomb_decoded,   \* result of decode(golomb_codeword, golomb_m)
    golomb_pc         \* "idle" | "encoded" | "raised" | "decoded"

VARIABLES
    lzw_text,      \* argument of the last LZWCoding.encode call
    lzw_ret,       \* what it returned: codes, dictionary (or raised)
    lzw_codes,     \* the list of codes given to LZWCoding.decode
    lzw_decoded,   \* result of decode(lzw_codes)
    lzw_pc         \* "idle" | "encoded" | "raised" | "decoded" |
                   \* "decoded_codes"

rleVars == <<rle_data, rle_encoded, rle_decoded, rle_pc>>
huffVars == <<huff_text, huff_ret, huff_self_codes, huff_bits, huff_decoded,
              huff_pc>>

golombVars == <<golomb_n, golomb_m, golomb_codeword, golomb_decoded, golomb_pc>>

lzwVars == <<lzw_text, lzw_ret, lzw_codes, lzw_decoded, lzw_pc>>

\* One browser session of app.py in lossless mode: the selected technique and
\* the fields of st.session_state the two buttons read and write.  The fields
\* original_size, compress_time and decompress_time are displayed only:
\* original_size is len(original_data), the times are clock readings.
VARIABLES
    app_technique,           \* technique, the value of the selectbox
    app_original_data,       \* st.session_state.original_data
    app_compressed_data,     \* st.session_state.compressed_data
    app_huffman_codes,       \* st.session_state.huffman_codes
    app_lzw_codes,           \* st.session_state.lzw_codes
    app_golomb_m,            \* st.session_state.golomb_m
    app_golomb_codewords,    \* st.session_state.golomb_codewords
    app_decompressed_data,   \* st.session_state.decompressed_data
    app_written,             \* history: the fields the last Compress click wrote
    app_compress_technique,  \* history: the technique of the last Compress click
    app_stored               \* history: the last run of the script was a
                             \* Decompress click that wrote decompressed_data

appVars == <<app_technique, app_original_data, app_compressed_data,
             app_huffman_codes, app_lzw_codes, app_golomb_m,
             app_golomb_codewords, app_decompressed_data, app_written,
             app_compress_technique, app_stored>>

concVars == <<conc_self_codes, conc_obj, conc_text, conc_local, conc_ret,
              conc_pc>>

vars == <<rleVars, huffVars, golombVars, lzwVars, concVars, appVars>>

\* What a call on an object of one class leaves alone: the other classes.
notRLE == <<huffVars, golombVars, lzwVars, concVars, appVars>>
notHuffman == <<rleVars, golombVars, lzwVars, concVars, appVars>>
notGolomb == <<rleVars, huffVars, lzwVars, concVars, appVars>>
notLZW == <<rleVars, huffVars, golombVars, concVars, appVars>>
notConc == <<rleVars, huffVars, golombVars, lzwVars, appVars>>
notApp == <<rleVars, huffVars, golombVars, lzwVars, concVars>>

-----------------------------------------------------------------------------
(* Bounds of the model *)

RLE_MaxLen == 4
RLE_MaxRun == 11
Huff_MaxLen == 5
Conc_MaxLen == 2
Golomb_MaxN == 40
Golomb_MaxNeg == 3
Golomb_MaxM == 9
LZW_MaxLen == 6
LZW_MaxCodes == 3

-----------------------------------------------------------------------------
(* Python strings *)

\* All strings over alphabet S of length at most n.
Strings(S, n) == UNION {[1..k -> S] : k \in 0..n}

\* c * n for a one-character string c.
Repeat(c, n) == IF n <= 0 THEN <<>> ELSE [i \in 1..n |-> c]

\* s[a:b] for 0 <= a <= b, 0-based, clipped to the string.
Slice(s, a, b) ==
    IF a >= Len(s) THEN <<>>
    ELSE SubSeq(s, a + 1, IF b < Len(s) THEN b ELSE Len(s))

\* A normal return and a raised exception.
Return(v) == [raised |-> "none", value |-> v]
Raise(e) == [raised |-> e, value |-> <<>>]

\* str.isdigit(): the ASCII digits and, in Latin-1, the superscript digits
\* (code points 178, 179, 185), which Unicode gives Numeric_Type=Digit.
isdigit(c) == c \in 48..57 \/ c \in {178, 179, 185}

\* str(n) for n >= 0: the decimal digits of n.
RECURSIVE str(_)
str(n) == IF n < 10 THEN <<48 + n>> ELSE str(n \div 10) \o <<48 + (n % 10)>>

\* int(s) succeeds on a non-empty string of decimal digits; the superscript
\* digits pass isdigit() but int() raises ValueError on them.
int_ok(s) == Len(s) > 0 /\ \A i \in 1..Len(s) : s[i] \in 48..57

RECURSIVE int(_)
int(s) == IF s = <<>> THEN 0
          ELSE 10 * int(SubSeq(s, 1, Len(s) - 1)) + (s[Len(s)] - 48)

-----------------------------------------------------------------------------
(* RunLengthEncoding *)

\* The for loop of encode, i being the 1-based index of data[i].
RECURSIVE RLE_encode_loop(_, _, _, _)
RLE_encode_loop(data, i, encoded, count) ==
    IF i > Len(data)
    THEN encoded \o str(count) \o <<data[Len(data)]>>
    ELSE IF data[i] = data[i - 1]
         THEN RLE_encode_loop(data, i + 1, encoded, count + 1)
         ELSE RLE_encode_loop(data, i + 1,
                              encoded \o str(count) \o <<data[i - 1]>>, 1)

\* encode with the run counter started at 0 instead of 1.
RLE_encode_count0(data) ==
    IF data = <<>> THEN <<>> ELSE RLE_encode_loop(data, 2, <<>>, 0)

RLE_encode(data) ==
    IF data = <<>> THEN <<>> ELSE RLE_encode_loop(data, 2, <<>>, 1)

\* The for loop of decode; count is the accumulated digit string.
RECURSIVE RLE_decode_loop(_, _, _, _)
RLE_decode_loop(encoded, i, decoded, count) ==
    IF i > Len(encoded) THEN Return(decoded)
    ELSE IF isdigit(encoded[i])
         THEN RLE_decode_loop(encoded, i + 1, decoded, Append(count, encoded[i]))
         ELSE IF ~int_ok(count) THEN Raise("ValueError")
              ELSE RLE_decode_loop(encoded, i + 1,
                                   decoded \o Repeat(encoded[i], int(count)), <<>>)

RLE_decode(encoded) == RLE_decode_loop(encoded, 1, <<>>, <<>>)

\* Inputs: 'A', 'B', '1' and the superscript two; every string up to
\* RLE_MaxLen, the documented example AAAABBBCCDAA, and runs long enough for
\* a count of two digits.
RLE_Alphabet == {65, 66, 49, 178}
RLE_Example == <<65, 65, 65, 65, 66, 66, 66, 67, 67, 68, 65, 65>>
RLE_Inputs ==
    Strings(RLE_Alphabet, RLE_MaxLen) \cup {RLE_Example}
      \cup {Repeat(65, k) \o <<66>> : k \in 9..RLE_MaxRun}

RLE_Init ==
    /\ rle_data = <<>>
    /\ rle_encoded = <<>>
    /\ rle_decoded = Return(<<>>)
    /\ rle_pc = "idle"

RLE_Encode ==
    \E data \in RLE_Inputs :
        /\ rle_pc = "idle"
        /\ rle_data' = data
        /\ rle_encoded' = RLE_encode(data)
        /\ rle_decoded' = Return(<<>>)
        /\ rle_pc' = "encoded"
        /\ UNCHANGED notRLE

RLE_Decode ==
    /\ rle_pc = "encoded"
    /\ rle_decoded' = RLE_decode(rle_encoded)
    /\ rle_pc' = "decoded"
    /\ UNCHANGED <<rle_data, rle_encoded>>
    /\ UNCHANGED notRLE

\* C1: RunLengthEncoding round trip.  For every input in which no character
\* is a digit (str.isdigit), the empty string included, decode(encode(x))
\* returns x; and encode("AAAABBBCCDAA") is "4A3B2C1D2A", which decodes back
\* to "AAAABBBCCDAA".
NoDigit(data) == \A i \in 1..Len(data) : ~isdigit(data[i])

C1_RLE_RoundTrip ==
    /\ (rle_pc = "decoded" /\ NoDigit(rle_data))
          => rle_decoded = Return(rle_data)
    /\ (rle_pc # "idle" /\ rle_data = RLE_Example)
          => rle_encoded = <<52, 65, 51, 66, 50, 67, 49, 68, 50, 65>>

C1_Witness ==
    /\ rle_pc = "decoded"
    /\ rle_data = RLE_Example
    /\ rle_encoded = <<52, 65, 51, 66, 50, 67, 49, 68, 50, 65>>
    /\ rle_decoded = Return(RLE_Example)

\* A second case of C1: a run of ten or more, whose count has two digits.
C1_WitnessLongRun ==
    /\ rle_pc = "decoded"
    /\ Len(rle_data) > 10
    /\ rle_encoded = <<49, 48, 65, 49, 66>>
    /\ rle_decoded = Return(rle_data)

-----------------------------------------------------------------------------
(* HuffmanCoding *)

\* A dict is modelled as the sequence of its <<key, value>> items in insertion
\* order, keys pairwise distinct: the order Python iterates it in.
Keys(d) == {d[i][1] : i \in 1..Len(d)}
Get(d, key) == d[CHOOSE i \in 1..Len(d) : d[i][1] = key][2]

\* Counter(text): one item per distinct character, in first-seen order.
RECURSIVE build_frequency(_)
build_frequency(text) ==
    IF text = <<>> THEN <<>>
    ELSE LET freq == build_frequency(SubSeq(text, 1, Len(text) - 1))
             ch == text[Len(text)]
         IN  IF ch \in Keys(freq)
             THEN [i \in 1..Len(freq) |->
                      IF freq[i][1] = ch THEN <<ch, freq[i][2] + 1>> ELSE freq[i]]
             ELSE Append(freq, <<ch, 1>>)

\* A heap item [weight, [char, code], [char, code], ...] is the record of its
\* weight and of the sequence of its [char, code] pairs.
\* Python's < on two strings: lexicographic by code point.
RECURSIVE StrLess(_, _)
StrLess(s, t) ==
    IF t = <<>> THEN FALSE
    ELSE IF s = <<>> THEN TRUE
    ELSE IF s[1] # t[1] THEN s[1] < t[1]
    ELSE StrLess(Tail(s), Tail(t))

\* Python's < on two lists of [char, code] lists: lexicographic, each pair
\* compared by its character and then by its code.
RECURSIVE PairsLess(_, _)
PairsLess(ps, qs) ==
    IF qs = <<>> THEN FALSE
    ELSE IF ps = <<>> THEN TRUE
    ELSE IF ps[1][1] # qs[1][1] THEN ps[1][1] < qs[1][1]
    ELSE IF ps[1][2] # qs[1][2] THEN StrLess(ps[1][2], qs[1][2])
    ELSE PairsLess(Tail(ps), Tail(qs))

\* The comparison with the weights compared the wrong way round.
NodeLess_maxheap(a, b) ==
    \/ a.weight > b.weight
    \/ a.weight = b.weight /\ PairsLess(a.pairs, b.pairs)

\* Python's < on two heap items, the comparison heapq orders the heap by: the
\* weight, then the items' pairs.  No two items of one heap hold the same
\* character, so the order is total and strict on a heap's items.
NodeLess(a, b) ==
    \/ a.weight < b.weight
    \/ a.weight = b.weight /\ PairsLess(a.pairs, b.pairs)

\* heapq.  The items of a heap being totally ordered, which item heappop
\* returns depends on the order alone and not on the layout of the array; the
\* heap is kept as the ascending sequence of its items (which satisfies the
\* heap invariant), heappop taking its head.
RECURSIVE heappush(_, _)
heappush(heap, item) ==
    IF heap = <<>> THEN <<item>>
    ELSE IF NodeLess(item, heap[1]) THEN <<item>> \o heap
    ELSE <<heap[1]>> \o heappush(Tail(heap), item)

RECURSIVE heapify(_)
heapify(list) ==
    IF list = <<>> THEN <<>>
    ELSE heappush(heapify(SubSeq(list, 1, Len(list) - 1)), list[Len(list)])

build_heap(freq) ==
    heapify([i \in 1..Len(freq) |->
                [weight |-> freq[i][2], pairs |-> << <<freq[i][1], <<>> >> >>]])

\* bit + pair[1] for every pair of an item.
Prepend(bit, pairs) ==
    [i \in 1..Len(pairs) |-> <<pairs[i][1], <<bit>> \o pairs[i][2]>>]

\* The merge with "0" added on both branches.
Huff_merge_samebit(smallest, secsmallest) ==
    [weight |-> smallest.weight + secsmallest.weight,
     pairs |-> Prepend(48, smallest.pairs) \o Prepend(48, secsmallest.pairs)]

\* The body of build_codes' loop after the two pops: "0" is added in front of
\* the codes under smallest, "1" in front of those under secsmallest, and the
\* combined item holds both.
Huff_merge(smallest, secsmallest) ==
    [weight |-> smallest.weight + secsmallest.weight,
     pairs |-> Prepend(48, smallest.pairs) \o Prepend(49, secsmallest.pairs)]

RECURSIVE build_codes_loop(_)
build_codes_loop(heap) ==
    IF Len(heap) > 1
    THEN LET smallest == heap[1]
             secsmallest == heap[2]
             rest == SubSeq(heap, 3, Len(heap))
         IN  build_codes_loop(heappush(rest, Huff_merge(smallest, secsmallest)))
    ELSE heap

\* dict(heap[0][1:]); heap[0] raises IndexError on the empty heap.
build_codes(heap) ==
    LET h == build_codes_loop(heap)
    IN  IF h = <<>> THEN Raise("IndexError") ELSE Return(h[1].pairs)

\* "".join(codes[ch] for ch in text); codes[ch] raises KeyError.
RECURSIVE huffman_encode(_, _)
huffman_encode(text, codes) ==
    IF text = <<>> THEN Return(<<>>)
    ELSE IF text[1] \notin Keys(codes) THEN Raise("KeyError")
    ELSE LET rest == huffman_encode(Tail(text), codes)
         IN  IF rest.raised # "none" THEN rest
             ELSE Return(Get(codes, text[1]) \o rest.value)

\* compress: what it returns (encoded, codes, freq) or the exception it raises.
Huff_compress(text) ==
    LET freq == build_frequency(text)
        heap == build_heap(freq)
        codes == build_codes(heap)
    IN  IF codes.raised # "none"
        THEN [raised |-> codes.raised, encoded |-> <<>>, codes |-> <<>>,
              freq |-> freq]
        ELSE LET enc == huffman_encode(text, codes.value)
             IN  [raised |-> enc.raised, encoded |-> enc.value,
                  codes |-> codes.value, freq |-> freq]

\* reverse_codes = {code: char for char, code in codes.items()}: of several
\* characters with one code the last one stays.
InReverse(codes, code) == \E i \in 1..Len(codes) : codes[i][2] = code
Reverse(codes, code) ==
    LET last == CHOOSE i \in 1..Len(codes) :
                    /\ codes[i][2] = code
                    /\ \A j \in (i + 1)..Len(codes) : codes[j][2] # code
    IN  codes[last][1]

\* The loop body without the reset of current_code.
Huff_decode_step_noreset(st, bit, codes) ==
    LET current_code == Append(st.current_code, bit)
    IN  IF InReverse(codes, current_code)
        THEN [decoded_text |-> Append(st.decoded_text, Reverse(codes, current_code)),
              current_code |-> current_code]
        ELSE [decoded_text |-> st.decoded_text, current_code |-> current_code]

\* One pass of decode's loop over a bit.
Huff_decode_step(st, bit, codes) ==
    LET current_code == Append(st.current_code, bit)
    IN  IF InReverse(codes, current_code)
        THEN [decoded_text |-> Append(st.decoded_text, Reverse(codes, current_code)),
              current_code |-> <<>>]
        ELSE [decoded_text |-> st.decoded_text, current_code |-> current_code]

\* decode's locals after the loop has consumed every bit.
RECURSIVE Huff_decode_loop(_, _)
Huff_decode_loop(encoded_binary, codes) ==
    IF encoded_binary = <<>>
    THEN [decoded_text |-> <<>>, current_code |-> <<>>]
    ELSE Huff_decode_step(
             Huff_decode_loop(SubSeq(encoded_binary, 1, Len(encoded_binary) - 1),
                              codes),
             encoded_binary[Len(encoded_binary)], codes)

\* decode has no raise statement: it returns decoded_text whatever
\* current_code holds at the end.
Huff_decode(encoded_binary, codes) ==
    Return(Huff_decode_loop(encoded_binary, codes).decoded_text)

\* Inputs: every text over 'a'..'d' up to Huff_MaxLen.
Huff_Alphabet == {97, 98, 99, 100}
Huff_Inputs == Strings(Huff_Alphabet, Huff_MaxLen)

Huff_NoReturn == [raised |-> "none", encoded |-> <<>>, codes |-> <<>>, freq |-> <<>>]

Huff_Init ==
    /\ huff_text = <<>>
    /\ huff_ret = Huff_NoReturn
    /\ huff_self_codes = <<>>
    /\ huff_bits = <<>>
    /\ huff_decoded = Return(<<>>)
    /\ huff_pc = "idle"

\* huffman.compress(text): self.codes is assigned before the encoding step,
\* and is left alone when build_codes raises.
Huff_Compress ==
    \E text \in Huff_Inputs :
        /\ huff_pc = "idle"
        /\ huff_text' = text
        /\ huff_ret' = Huff_compress(text)
        /\ huff_self_codes' = IF build_codes(build_heap(build_frequency(text))).raised
                                   = "none"
                              THEN huff_ret'.codes ELSE huff_self_codes
        /\ huff_pc' = IF huff_ret'.raised = "none" THEN "compressed" ELSE "raised"
        /\ UNCHANGED <<huff_bits, huff_decoded>>
        /\ UNCHANGED notHuffman

\* huffman.decode(encoded, codes) with what compress returned.
Huff_Decode ==
    /\ huff_pc = "compressed"
    /\ huff_bits' = huff_ret.encoded
    /\ huff_decoded' = Huff_decode(huff_ret.encoded, huff_ret.codes)
    /\ huff_pc' = "decoded"
    /\ UNCHANGED <<huff_text, huff_ret, huff_self_codes>>
    /\ UNCHANGED notHuffman

\* huffman.decode on a bit-string cut short: the first k bits of the encoding.
Huff_DecodeTruncated ==
    \E k \in 0..(Len(huff_ret.encoded) - 1) :
        /\ huff_pc = "compressed"
        /\ huff_bits' = SubSeq(huff_ret.encoded, 1, k)
        /\ huff_decoded' = Huff_decode(huff_bits', huff_ret.codes)
        /\ huff_pc' = "decoded_truncated"
        /\ UNCHANGED <<huff_text, huff_ret, huff_self_codes>>
        /\ UNCHANGED notHuffman

\* Properties of a text and of a code table.
Huff_Returned == huff_pc \in {"compressed", "decoded", "decoded_truncated"}
Count(text, ch) == Cardinality({i \in 1..Len(text) : text[i] = ch})
Distinct(text) == {text[i] : i \in 1..Len(text)}
IsPrefix(s, t) == Len(s) <= Len(t) /\ SubSeq(t, 1, Len(s)) = s
MaxCodeLen(codes) ==
    CHOOSE n \in 0..Huff_MaxLen + 1 :
        /\ \A i \in 1..Len(codes) : Len(codes[i][2]) <= n
        /\ \E i \in 1..Len(codes) : Len(codes[i][2]) = n
RECURSIVE KraftSum(_, _)
KraftSum(codes, L) ==
    IF codes = <<>> THEN 0
    ELSE 2 ^ (L - Len(codes[1][2])) + KraftSum(Tail(codes), L)

\* C2: HuffmanCoding round trip.  For every text with at least two distinct
\* symbols, decode given the bit-string and the code table that compress
\* returned, unmodified, returns the text.
C2_Huffman_RoundTrip ==
    (huff_pc = "decoded" /\ Cardinality(Distinct(huff_text)) >= 2)
        => /\ huff_bits = huff_ret.encoded
           /\ huff_decoded = Return(huff_text)

C2_Witness ==
    /\ huff_pc = "decoded"
    /\ Cardinality(Distinct(huff_text)) = 3
    /\ Len(huff_text) = Huff_MaxLen
    /\ huff_bits = huff_ret.encoded
    /\ huff_decoded = Return(huff_text)

\* C6: Huffman degenerate alphabet.  For a text of one distinct symbol
\* repeated n >= 1 times, compress gives that symbol the code "0", the encoded
\* bit-string is "0" repeated n times, and decode of it with the returned
\* table recovers the text.
C6_Huffman_SingleSymbol ==
    (huff_pc # "idle" /\ Cardinality(Distinct(huff_text)) = 1)
        => /\ huff_ret.raised = "none"
           /\ huff_ret.codes = << <<huff_text[1], <<48>> >> >>
           /\ huff_ret.encoded = Repeat(48, Len(huff_text))
           /\ huff_pc = "decoded" => huff_decoded = Return(huff_text)

\* C7: Huffman prefix-free law.  For every non-empty text, in the code table
\* compress returns no symbol's code is a prefix of another symbol's code (so
\* the codes are pairwise distinct), and the sum over the codes of
\* 2^(-length) is at most 1.
PrefixFree(codes) ==
    \A i, j \in 1..Len(codes) : i # j => ~IsPrefix(codes[i][2], codes[j][2])
Kraft(codes) ==
    KraftSum(codes, MaxCodeLen(codes)) <= 2 ^ MaxCodeLen(codes)

C7_Huffman_PrefixFree ==
    (Huff_Returned /\ huff_text # <<>>)
        => /\ Keys(huff_ret.codes) = Distinct(huff_text)
           /\ PrefixFree(huff_ret.codes)
           /\ Kraft(huff_ret.codes)

C7_Witness ==
    /\ huff_pc = "compressed"
    /\ Cardinality(Distinct(huff_text)) = 4
    /\ \E i, j \in 1..Len(huff_ret.codes) :
           Len(huff_ret.codes[i][2]) < Len(huff_ret.codes[j][2])
    /\ PrefixFree(huff_ret.codes)
    /\ Kraft(huff_ret.codes)

\* C8 as claimed: for any two symbols a and b of the table, if a's frequency
\* in the text is greater than or equal to b's, a's code is not strictly
\* longer than b's; pairs of equal frequency included.
C8_Original_MonotonicGeq ==
    Huff_Returned =>
        \A a, b \in Keys(huff_ret.codes) :
            Count(huff_text, a) >= Count(huff_text, b)
                => Len(Get(huff_ret.codes, a)) <= Len(Get(huff_ret.codes, b))

\* C8 as amended: for any two symbols a and b of the table, if a's frequency
\* in the text is strictly greater than b's, a's code is not strictly longer
\* than b's.
C8_Huffman_MonotonicStrict ==
    Huff_Returned =>
        \A a, b \in Keys(huff_ret.codes) :
            Count(huff_text, a) > Count(huff_text, b)
                => Len(Get(huff_ret.codes, a)) <= Len(Get(huff_ret.codes, b))

C8_Witness ==
    /\ huff_pc = "compressed"
    /\ \E a, b \in Keys(huff_ret.codes) :
           /\ Count(huff_text, a) > Count(huff_text, b)
           /\ Len(Get(huff_ret.codes, a)) < Len(Get(huff_ret.codes, b))
    /\ \E a, b \in Keys(huff_ret.codes) :
           /\ Count(huff_text, a) > Count(huff_text, b)
           /\ Len(Get(huff_ret.codes, a)) = Len(Get(huff_ret.codes, b))

\* C9: Huffman tie-break.  Of heap items of equal weight the one whose symbol
\* was seen first in the input is extracted as the smaller and receives bit
\* 0.  The first extraction takes a leaf of the lowest frequency, so among the
\* symbols of lowest frequency the first-seen one has a code ending in "0";
\* and in a text of two symbols with equal counts the first-seen symbol's
\* code is "0", whatever its character value.
FirstSeenOfMinWeight(freq) ==
    LET i == CHOOSE i \in 1..Len(freq) :
                 /\ \A j \in 1..Len(freq) : freq[i][2] <= freq[j][2]
                 /\ \A j \in 1..(i - 1) : freq[j][2] > freq[i][2]
    IN  freq[i][1]

C9_Huffman_TieBreakFirstSeen ==
    (Huff_Returned /\ Cardinality(Distinct(huff_text)) >= 2)
        => /\ LET code == Get(huff_ret.codes, FirstSeenOfMinWeight(huff_ret.freq))
              IN  code[Len(code)] = 48
           /\ (/\ Cardinality(Distinct(huff_text)) = 2
               /\ huff_ret.freq[1][2] = huff_ret.freq[2][2])
                 => Get(huff_ret.codes, huff_text[1]) = <<48>>

\* C10: Huffman decode rejects truncated input.  If, after every bit of the
\* bit-string has been consumed, the accumulated candidate code is non-empty
\* and matches no code of the table, decode fails with an error instead of
\* returning a text.
C10_Huffman_DecodeRejectsTruncated ==
    (/\ huff_pc \in {"decoded", "decoded_truncated"}
     /\ Huff_decode_loop(huff_bits, huff_ret.codes).current_code # <<>>)
        => huff_decoded.raised # "none"

-----------------------------------------------------------------------------
(* HuffmanCoding.compress called from two threads *)

\* The interpreter switches threads between statements of compress; freq,
\* heap and the dict build_codes returns are local to the call, self.codes is
\* a field of the object, written once and read twice by each call.
Threads == {1, 2}
Objects == {1, 2}
Other(t) == CHOOSE u \in Threads : u # t

Conc_Alphabet == {97, 98}
Conc_Inputs == Strings(Conc_Alphabet, Conc_MaxLen)
Conc_NoLocal == [freq |-> <<>>, codes |-> <<>>, encoded |-> <<>>]

\* __init__ of each object: self.codes = {}.
Conc_Init ==
    /\ conc_self_codes = [o \in Objects |-> <<>>]
    /\ conc_obj = [t \in Threads |-> 1]
    /\ conc_text = [t \in Threads |-> <<>>]
    /\ conc_local = [t \in Threads |-> Conc_NoLocal]
    /\ conc_ret = [t \in Threads |-> Huff_NoReturn]
    /\ conc_pc = [t \in Threads |-> "idle"]

\* The call, up to the right-hand side of "self.codes = self.build_codes(heap)":
\* build_frequency, build_heap and build_codes work on the call's own objects.
Conc_Call ==
    \E t \in Threads, o \in Objects, text \in Conc_Inputs :
        LET freq == build_frequency(text)
            codes == build_codes(build_heap(freq))
        IN  /\ conc_pc[t] = "idle"
            /\ conc_obj' = [conc_obj EXCEPT ![t] = o]
            /\ conc_text' = [conc_text EXCEPT ![t] = text]
            /\ conc_local' = [conc_local EXCEPT
                                 ![t] = [freq |-> freq, codes |-> codes.value,
                                         encoded |-> <<>>]]
            /\ conc_ret' = [conc_ret EXCEPT
                               ![t] = IF codes.raised = "none" THEN @
                                      ELSE [raised |-> codes.raised,
                                            encoded |-> <<>>, codes |-> <<>>,
                                            freq |-> freq]]
            /\ conc_pc' = [conc_pc EXCEPT
                              ![t] = IF codes.raised = "none" THEN "built"
                                     ELSE "raised"]
            /\ UNCHANGED conc_self_codes
            /\ UNCHANGED notConc

\* The store of "self.codes = ...".
Conc_AssignCodes ==
    \E t \in Threads :
        /\ conc_pc[t] = "built"
        /\ conc_self_codes' = [conc_self_codes EXCEPT
                                  ![conc_obj[t]] = conc_local[t].codes]
        /\ conc_pc' = [conc_pc EXCEPT ![t] = "assigned"]
        /\ UNCHANGED <<conc_obj, conc_text, conc_local, conc_ret>>
        /\ UNCHANGED notConc

\* "encoded = self.huffman_encode(text, self.codes)": self.codes is read from
\* the object.
Conc_Encode ==
    \E t \in Threads :
        LET enc == huffman_encode(conc_text[t], conc_self_codes[conc_obj[t]])
        IN  /\ conc_pc[t] = "assigned"
            /\ conc_local' = [conc_local EXCEPT ![t].encoded = enc.value]
            /\ conc_ret' = [conc_ret EXCEPT
                               ![t] = IF enc.raised = "none" THEN @
                                      ELSE [raised |-> enc.raised,
                                            encoded |-> <<>>, codes |-> <<>>,
                                            freq |-> conc_local[t].freq]]
            /\ conc_pc' = [conc_pc EXCEPT
                              ![t] = IF enc.raised = "none" THEN "encoded"
                                     ELSE "raised"]
            /\ UNCHANGED <<conc_self_codes, conc_obj, conc_text>>
            /\ UNCHANGED notConc

\* "return encoded, self.codes, freq": self.codes is read from the object again.
Conc_Return ==
    \E t \in Threads :
        /\ conc_pc[t] = "encoded"
        /\ conc_ret' = [conc_ret EXCEPT
                           ![t] = [raised |-> "none",
                                   encoded |-> conc_local[t].encoded,
                                   codes |-> conc_self_codes[conc_obj[t]],
                                   freq |-> conc_local[t].freq]]
        /\ conc_pc' = [conc_pc EXCEPT ![t] = "returned"]
        /\ UNCHANGED <<conc_self_codes, conc_obj, conc_text, conc_local>>
        /\ UNCHANGED notConc

Conc_Finished(t) == conc_pc[t] \in {"returned", "raised"}

\* C15: non-interference of concurrent encodes.  Two compress calls on
\* different texts that interleave at any point, on two objects or on the
\* same one, each return the bit-string, code table and frequencies that the
\* call returns when it runs alone, and raise only what it raises alone.
C15_Huffman_ConcurrentNonInterference ==
    \A t \in Threads :
        (/\ Conc_Finished(t)
         /\ conc_pc[Other(t)] # "idle"
         /\ conc_text[t] # conc_text[Other(t)])
            => conc_ret[t] = Huff_compress(conc_text[t])

-----------------------------------------------------------------------------
(* GolombCoding *)

\* a & b for a, b >= 0.
RECURSIVE BitAnd(_, _)
BitAnd(a, b) ==
    IF a = 0 \/ b = 0 THEN 0
    ELSE (a % 2) * (b % 2) + 2 * BitAnd(a \div 2, b \div 2)

\* int(math.log2(m)) for m a power of two, and math.ceil(math.log2(m)), m >= 1
\* (exact here: m is far below the range where the float rounds).
RECURSIVE log2_int(_)
log2_int(m) == IF m <= 1 THEN 0 ELSE 1 + log2_int(m \div 2)

RECURSIVE log2_ceil(_)
log2_ceil(m) == IF m <= 1 THEN 0 ELSE 1 + log2_ceil((m + 1) \div 2)

\* format(r, 'b') for r >= 0: the binary digits, at least one.
RECURSIVE bin(_)
bin(r) == IF r < 2 THEN <<48 + r>> ELSE bin(r \div 2) \o <<48 + (r % 2)>>

\* format(r, f'0{width}b'): zero-filled on the left up to width; never cut,
\* and never shorter than one digit.
format_b(r, width) == Repeat(48, width - Len(bin(r))) \o bin(r)

\* int(bits, 2) on a non-empty string of '0' and '1'.
RECURSIVE int2(_)
int2(bits) ==
    IF bits = <<>> THEN 0
    ELSE 2 * int2(SubSeq(bits, 1, Len(bits) - 1)) + (bits[Len(bits)] - 48)

\* "1" * q + "0"; "1" * q is empty for q <= 0.
unary_encode(q) == Repeat(49, q) \o <<48>>

\* The remainder written in b bits whichever side of T it is on.
Golomb_remainder_code_nosplit(r, m) ==
    IF BitAnd(m, m - 1) = 0
    THEN format_b(r, log2_int(m))
    ELSE format_b(r, log2_ceil(m))

\* The remainder equal to T written on the short side of the threshold.
Golomb_remainder_code_le(r, m) ==
    IF BitAnd(m, m - 1) = 0
    THEN format_b(r, log2_int(m))
    ELSE LET b == log2_ceil(m)
             T == 2 ^ b - m
         IN  IF r <= T THEN format_b(r, b - 1) ELSE format_b(r + T, b)

\* Step 3 of encode, 0 <= r < m.
Golomb_remainder_code(r, m) ==
    IF BitAnd(m, m - 1) = 0
    THEN format_b(r, log2_int(m))
    ELSE LET b == log2_ceil(m)
             T == 2 ^ b - m
         IN  IF r < T THEN format_b(r, b - 1) ELSE format_b(r + T, b)

\* encode(n, m) for m >= 0; n // 0 raises ZeroDivisionError.  // and % round
\* toward minus infinity, as \div and % do.
Golomb_encode(n, m) ==
    IF m = 0 THEN Raise("ZeroDivisionError")
    ELSE LET q == n \div m
             r == n % m
         IN  Return(unary_encode(q) \o Golomb_remainder_code(r, m))

\* The number of leading '1' of codeword: q after the while loop.
RECURSIVE Golomb_leading_ones(_, _)
Golomb_leading_ones(codeword, pos) ==
    IF pos < Len(codeword) /\ codeword[pos + 1] = 49
    THEN Golomb_leading_ones(codeword, pos + 1)
    ELSE pos

\* decode(codeword, m) for m >= 1.
Golomb_decode(codeword, m) ==
    LET q == Golomb_leading_ones(codeword, 0)
        pos == q + 1
        r == IF BitAnd(m, m - 1) = 0
             THEN LET k == log2_int(m)
                      remainder_bits == Slice(codeword, pos, pos + k)
                  IN  IF remainder_bits # <<>> THEN int2(remainder_bits) ELSE 0
             ELSE LET b == log2_ceil(m)
                      T == 2 ^ b - m
                  IN  IF pos + b - 1 <= Len(codeword)
                      THEN LET remainder_bits == Slice(codeword, pos, pos + b - 1)
                               r_temp == IF remainder_bits # <<>>
                                         THEN int2(remainder_bits) ELSE 0
                               wide == Slice(codeword, pos, pos + b)
                           IN  IF r_temp < T THEN r_temp
                               ELSE IF wide # <<>> THEN int2(wide) - T ELSE 0
                      ELSE 0
    IN  q * m + r

Golomb_Init ==
    /\ golomb_n = 0
    /\ golomb_m = 1
    /\ golomb_codeword = Return(<<>>)
    /\ golomb_decoded = 0
    /\ golomb_pc = "idle"

\* golomb.encode(n, m)
Golomb_Encode ==
    \E n \in (0 - Golomb_MaxNeg)..Golomb_MaxN, m \in 0..Golomb_MaxM :
        /\ golomb_pc = "idle"
        /\ golomb_n' = n
        /\ golomb_m' = m
        /\ golomb_codeword' = Golomb_encode(n, m)
        /\ golomb_pc' = IF golomb_codeword'.raised = "none"
                        THEN "encoded" ELSE "raised"
        /\ UNCHANGED golomb_decoded
        /\ UNCHANGED notGolomb

\* golomb.decode(codeword, m) with the codeword and the m of the encode call.
Golomb_Decode ==
    /\ golomb_pc = "encoded"
    /\ golomb_decoded' = Golomb_decode(golomb_codeword.value, golomb_m)
    /\ golomb_pc' = "decoded"
    /\ UNCHANGED <<golomb_n, golomb_m, golomb_codeword>>
    /\ UNCHANGED notGolomb

\* C3: GolombCoding round trip.  For every n >= 0 and every m >= 1, a power
\* of two (m = 1 included) or not, decode(encode(n, m), m) is n; and
\* encode(10, 4) is "11010", which decodes to 10.
C3_Golomb_RoundTrip ==
    /\ (golomb_pc = "decoded" /\ golomb_n >= 0 /\ golomb_m >= 1)
          => golomb_decoded = golomb_n
    /\ (golomb_pc # "idle" /\ golomb_n = 10 /\ golomb_m = 4)
          => golomb_codeword = Return(<<49, 49, 48, 49, 48>>)

C3_Witness ==
    /\ golomb_pc = "decoded"
    /\ golomb_n = 10
    /\ golomb_m = 4
    /\ golomb_codeword = Return(<<49, 49, 48, 49, 48>>)
    /\ golomb_decoded = 10

\* Further cases of C3: m = 1, and a remainder on each side of the threshold
\* of a divisor that is no power of two (m = 5: T = 3).
C3_WitnessM1 ==
    /\ golomb_pc = "decoded" /\ golomb_m = 1 /\ golomb_n = 3
    /\ golomb_decoded = 3

C3_WitnessTruncated ==
    /\ golomb_pc = "decoded" /\ golomb_m = 5 /\ golomb_n % 5 = 4
    /\ golomb_n >= 5 /\ golomb_decoded = golomb_n

\* The k with m = 2^k, for m a power of two.
IsPowerOfTwo(m) == \E k \in 0..m : 2 ^ k = m
Exponent(m) == CHOOSE k \in 0..m : 2 ^ k = m

\* C11: Golomb encode rejects negative integers.  For every n < 0 and every
\* m >= 1, encode(n, m) fails with an error and returns no codeword.
C11_Golomb_RejectsNegative ==
    (golomb_pc # "idle" /\ golomb_n < 0 /\ golomb_m >= 1)
        => /\ golomb_codeword.raised # "none"
           /\ golomb_codeword.value = <<>>

\* C12: Golomb power-of-two boundary.  For every k >= 0, m = 2^k (m = 1,
\* k = 0 included) and every n >= 0, encode(n, m) is q ones, one zero, then
\* exactly k remainder bits holding r in binary, q = n div m and r = n mod m;
\* the codeword is q + 1 + k long.
C12_Golomb_PowerOfTwo ==
    (/\ golomb_pc \in {"encoded", "decoded"}
     /\ golomb_n >= 0
     /\ golomb_m >= 1
     /\ IsPowerOfTwo(golomb_m))
        => LET k == Exponent(golomb_m)
               q == golomb_n \div golomb_m
               r == golomb_n % golomb_m
               cw == golomb_codeword.value
           IN  /\ Len(cw) = q + 1 + k
               /\ SubSeq(cw, 1, q) = Repeat(49, q)
               /\ cw[q + 1] = 48
               /\ int2(SubSeq(cw, q + 2, q + 1 + k)) = r

\* ceil(log2 m), the least b with m <= 2^b.
CeilLog2(m) == CHOOSE b \in 0..m : m <= 2 ^ b /\ (b = 0 \/ 2 ^ (b - 1) < m)

\* C16: Golomb truncated-binary split.  For every m >= 3 that is no power of
\* two, with b = ceil(log2 m) and T = 2^b - m, the codeword of encode(n, m) is
\* the unary quotient followed by r = n mod m in exactly b-1 bits when r < T
\* and by r + T in exactly b bits when r >= T; and decode of that codeword is
\* q * m plus the value of the b-1 bits after the separator when that value is
\* below T, and plus the value of the b bits after the separator minus T
\* otherwise.
C16_Golomb_TruncatedBinarySplit ==
    (/\ golomb_pc \in {"encoded", "decoded"}
     /\ golomb_m >= 3 /\ ~IsPowerOfTwo(golomb_m))
        => LET b == CeilLog2(golomb_m)
               T == 2 ^ b - golomb_m
               q == golomb_n \div golomb_m
               r == golomb_n % golomb_m
               cw == golomb_codeword.value
               u == IF q > 0 THEN q + 1 ELSE 1
               suffix == SubSeq(cw, u + 1, Len(cw))
               short == SubSeq(cw, u + 1, u + b - 1)
               long == SubSeq(cw, u + 1, u + b)
           IN  /\ golomb_codeword.raised = "none"
               /\ SubSeq(cw, 1, u) = unary_encode(q)
               /\ r < T => Len(suffix) = b - 1 /\ int2(suffix) = r
               /\ r >= T => Len(suffix) = b /\ int2(suffix) = r + T
               /\ golomb_pc = "decoded"
                     => golomb_decoded
                            = (u - 1) * golomb_m
                              + (IF int2(short) < T THEN int2(short)
                                 ELSE int2(long) - T)

\* m = 5: b = 3, T = 3.  n = 8 has r = 3, the first remainder written in b
\* bits, as 6: the codeword is 10 110.
C16_Witness ==
    /\ golomb_pc = "decoded"
    /\ golomb_m = 5 /\ golomb_n = 8
    /\ golomb_codeword = Return(<<49, 48, 49, 49, 48>>)
    /\ golomb_decoded = 8

\* m = 5, n = 7 has r = 2, the last remainder written in b-1 bits: 10 10.
C16_WitnessShort ==
    /\ golomb_pc = "decoded"
    /\ golomb_m = 5 /\ golomb_n = 7
    /\ golomb_codeword = Return(<<49, 48, 49, 48>>)
    /\ golomb_decoded = 7

-----------------------------------------------------------------------------
(* LZWCoding *)

\* encode's locals before the loop: the dictionary maps each one-character
\* string chr(0)..chr(255) to its code.
LZW_encode_start ==
    [dictionary |-> [str_ \in {<<i>> : i \in 0..255} |-> str_[1]],
     next_code |-> 256,
     current_c |-> <<>>,
     result |-> <<>>,
     raised |-> "none"]

\* The loop body emitting the code of the entry it is creating instead of the
\* code of current_c.
LZW_encode_step_emitnew(st, next_n) ==
    LET combined == Append(st.current_c, next_n)
    IN  IF st.raised # "none" THEN st
        ELSE IF combined \in DOMAIN st.dictionary
        THEN [st EXCEPT !.current_c = combined]
        ELSE IF st.current_c \notin DOMAIN st.dictionary
        THEN [st EXCEPT !.raised = "KeyError"]
        ELSE [st EXCEPT !.result = Append(@, st.next_code),
                        !.dictionary = @ @@ (combined :> st.next_code),
                        !.next_code = @ + 1,
                        !.current_c = <<next_n>>]

\* The loop body without "next_code += 1".
LZW_encode_step_nocount(st, next_n) ==
    LET combined == Append(st.current_c, next_n)
    IN  IF st.raised # "none" THEN st
        ELSE IF combined \in DOMAIN st.dictionary
        THEN [st EXCEPT !.current_c = combined]
        ELSE IF st.current_c \notin DOMAIN st.dictionary
        THEN [st EXCEPT !.raised = "KeyError"]
        ELSE [st EXCEPT !.result = Append(@, st.dictionary[st.current_c]),
                        !.dictionary = @ @@ (combined :> st.next_code),
                        !.current_c = <<next_n>>]

\* The loop body with dictionary.get(current_c, 0) in place of
\* dictionary[current_c].
LZW_encode_step_default(st, next_n) ==
    LET combined == Append(st.current_c, next_n)
    IN  IF st.raised # "none" THEN st
        ELSE IF combined \in DOMAIN st.dictionary
        THEN [st EXCEPT !.current_c = combined]
        ELSE [st EXCEPT !.result = Append(@, IF st.current_c \in DOMAIN st.dictionary
                                             THEN st.dictionary[st.current_c]
                                             ELSE 0),
                        !.dictionary = @ @@ (combined :> st.next_code),
                        !.next_code = @ + 1,
                        !.current_c = <<next_n>>]

\* One pass of encode's loop over the character next_n; dictionary[current_c]
\* raises KeyError when current_c is no key.
LZW_encode_step(st, next_n) ==
    LET combined == Append(st.current_c, next_n)
    IN  IF st.raised # "none" THEN st
        ELSE IF combined \in DOMAIN st.dictionary
        THEN [st EXCEPT !.current_c = combined]
        ELSE IF st.current_c \notin DOMAIN st.dictionary
        THEN [st EXCEPT !.raised = "KeyError"]
        ELSE [st EXCEPT !.result = Append(@, st.dictionary[st.current_c]),
                        !.dictionary = @ @@ (combined :> st.next_code),
                        !.next_code = @ + 1,
                        !.current_c = <<next_n>>]

RECURSIVE LZW_encode_loop(_)
LZW_encode_loop(text) ==
    IF text = <<>> THEN LZW_encode_start
    ELSE LZW_encode_step(LZW_encode_loop(SubSeq(text, 1, Len(text) - 1)),
                         text[Len(text)])

\* encode(text): (result, dictionary), or the exception.
LZW_encode(text) ==
    LET st == LZW_encode_loop(text)
    IN  IF st.raised # "none"
        THEN [raised |-> st.raised, codes |-> <<>>, dictionary |-> <<>>]
        ELSE IF st.current_c # <<>>
        THEN IF st.current_c \in DOMAIN st.dictionary
             THEN [raised |-> "none",
                   codes |-> Append(st.result, st.dictionary[st.current_c]),
                   dictionary |-> st.dictionary]
             ELSE [raised |-> "KeyError", codes |-> <<>>, dictionary |-> <<>>]
        ELSE [raised |-> "none", codes |-> st.result,
              dictionary |-> st.dictionary]

\* decode's locals after the first code; dictionary[codes[0]] raises KeyError.
LZW_decode_start(codes, initial_dict_size) ==
    LET dictionary == [i \in 0..(initial_dict_size - 1) |-> <<i>>]
    IN  [dictionary |-> dictionary,
         next_code |-> initial_dict_size,
         decoded_text |-> IF codes[1] \in DOMAIN dictionary
                          THEN dictionary[codes[1]] ELSE <<>>,
         previous_string |-> IF codes[1] \in DOMAIN dictionary
                             THEN dictionary[codes[1]] ELSE <<>>,
         raised |-> IF codes[1] \in DOMAIN dictionary THEN "none" ELSE "KeyError"]

\* The rest of the loop body adding previous_string + current_string, not
\* only the first character of current_string.
LZW_decode_emit_whole(st, current_string) ==
    [st EXCEPT !.decoded_text = @ \o current_string,
               !.dictionary = @ @@ (st.next_code :>
                                      st.previous_string \o current_string),
               !.next_code = @ + 1,
               !.previous_string = current_string]

\* The rest of the loop body once current_string is known.
LZW_decode_emit(st, current_string) ==
    [st EXCEPT !.decoded_text = @ \o current_string,
               !.dictionary = @ @@ (st.next_code :>
                                      Append(st.previous_string, current_string[1])),
               !.next_code = @ + 1,
               !.previous_string = current_string]

\* The loop body with the not-yet-created case repeating previous_string
\* without its first character added.
LZW_decode_step_noextend(st, code) ==
    IF st.raised # "none" THEN st
    ELSE IF code \in DOMAIN st.dictionary
    THEN LZW_decode_emit(st, st.dictionary[code])
    ELSE IF code = st.next_code
    THEN LZW_decode_emit(st, st.previous_string)
    ELSE [st EXCEPT !.raised = "ValueError"]

\* The loop body passing over a code it does not know instead of raising.
LZW_decode_step_skip(st, code) ==
    IF st.raised # "none" THEN st
    ELSE IF code \in DOMAIN st.dictionary
    THEN LZW_decode_emit(st, st.dictionary[code])
    ELSE IF code = st.next_code
    THEN LZW_decode_emit(st, Append(st.previous_string, st.previous_string[1]))
    ELSE st

\* One pass of decode's loop over a code of codes[1:].
LZW_decode_step(st, code) ==
    IF st.raised # "none" THEN st
    ELSE IF code \in DOMAIN st.dictionary
    THEN LZW_decode_emit(st, st.dictionary[code])
    ELSE IF code = st.next_code
    THEN LZW_decode_emit(st, Append(st.previous_string, st.previous_string[1]))
    ELSE [st EXCEPT !.raised = "ValueError"]

\* decode's locals after the first n codes, n >= 1.
RECURSIVE LZW_decode_loop(_, _, _)
LZW_decode_loop(codes, n, initial_dict_size) ==
    IF n = 1 THEN LZW_decode_start(codes, initial_dict_size)
    ELSE LZW_decode_step(LZW_decode_loop(codes, n - 1, initial_dict_size),
                         codes[n])

\* decode's local dictionary after the first n codes; it is built before the
\* test for an empty list of codes.
LZW_decode_dictionary(codes, n, initial_dict_size) ==
    IF n = 0 THEN [i \in 0..(initial_dict_size - 1) |-> <<i>>]
    ELSE LZW_decode_loop(codes, n, initial_dict_size).dictionary

\* decode(codes, initial_dict_size)
LZW_decode(codes, initial_dict_size) ==
    IF codes = <<>> THEN Return(<<>>)
    ELSE LET st == LZW_decode_loop(codes, Len(codes), initial_dict_size)
         IN  IF st.raised # "none" THEN Raise(st.raised)
             ELSE Return(st.decoded_text)

\* Inputs: every string over 'A', 'B' and the euro sign (code point 8364,
\* outside the initial dictionary) up to LZW_MaxLen, and the standard example
\* TOBEORNOTTOBEORTOBEORNOT.
LZW_Alphabet == {65, 66, 8364}
LZW_Example ==
    <<84, 79, 66, 69, 79, 82, 78, 79, 84, 84, 79, 66, 69, 79, 82, 84, 79, 66,
      69, 79, 82, 78, 79, 84>>
LZW_Inputs == Strings(LZW_Alphabet, LZW_MaxLen) \cup {LZW_Example}

LZW_Init ==
    /\ lzw_text = <<>>
    /\ lzw_ret = [raised |-> "none", codes |-> <<>>, dictionary |-> <<>>]
    /\ lzw_codes = <<>>
    /\ lzw_decoded = Return(<<>>)
    /\ lzw_pc = "idle"

\* lzw.encode(text)
LZW_Encode ==
    \E text \in LZW_Inputs :
        /\ lzw_pc = "idle"
        /\ lzw_text' = text
        /\ lzw_ret' = LZW_encode(text)
        /\ lzw_pc' = IF lzw_ret'.raised = "none" THEN "encoded" ELSE "raised"
        /\ UNCHANGED <<lzw_codes, lzw_decoded>>
        /\ UNCHANGED notLZW

\* lzw.decode(codes): the list of codes alone, initial_dict_size at its
\* default.
LZW_Decode ==
    /\ lzw_pc = "encoded"
    /\ lzw_codes' = lzw_ret.codes
    /\ lzw_decoded' = LZW_decode(lzw_ret.codes, 256)
    /\ lzw_pc' = "decoded"
    /\ UNCHANGED <<lzw_text, lzw_ret>>
    /\ UNCHANGED notLZW

\* lzw.decode(codes) on a list of codes that no encode call produced: codes of
\* single characters, the first codes the decoder creates, codes it has not
\* created yet, and a negative number.
LZW_CodeValues == {0 - 1, 65, 256, 257, 258, 300}
LZW_CodeLists == Strings(LZW_CodeValues, LZW_MaxCodes)

LZW_DecodeCodes ==
    \E codes \in LZW_CodeLists :
        /\ lzw_pc = "idle"
        /\ lzw_codes' = codes
        /\ lzw_decoded' = LZW_decode(codes, 256)
        /\ lzw_pc' = "decoded_codes"
        /\ UNCHANGED <<lzw_text, lzw_ret>>
        /\ UNCHANGED notLZW

\* C4: LZWCoding round trip.  For every string whose symbols all have code
\* points 0..255, encode returns a list of codes, and decode, given only that
\* list and rebuilding its dictionary from the 256 initial entries, returns
\* the string; no code of the list makes decode raise.
Latin1(text) == \A i \in 1..Len(text) : text[i] \in 0..255

C4_LZW_RoundTrip ==
    /\ (lzw_pc # "idle" /\ Latin1(lzw_text)) => lzw_ret.raised = "none"
    /\ (lzw_pc = "decoded" /\ Latin1(lzw_text))
          => lzw_decoded = Return(lzw_text)

\* AAAAAA is encoded as 65, 256, 257: both 256 and 257 reach the decoder
\* before it has created them.
C4_Witness ==
    /\ lzw_pc = "decoded"
    /\ lzw_text = <<65, 65, 65, 65, 65, 65>>
    /\ lzw_ret.codes = <<65, 256, 257>>
    /\ lzw_decoded = Return(lzw_text)

\* C13: LZW decode rejects invalid codes.  For any list of codes, when decode
\* meets a code that is neither a key of its current dictionary nor its next
\* free code, it fails with an error and returns no text.  The decoder holds
\* the keys 0..255 at the first code and has created one entry per code
\* after the first, so the n-th code is such a code exactly when it is outside
\* 0..254+n (at the first position: outside 0..255).
LZW_Decoded == lzw_pc \in {"decoded", "decoded_codes"}
LZW_InvalidAt(codes, n) ==
    IF n = 1 THEN codes[1] \notin 0..255
    ELSE LET st == LZW_decode_loop(codes, n - 1, 256)
         IN  /\ st.raised = "none"
             /\ codes[n] \notin DOMAIN st.dictionary
             /\ codes[n] # st.next_code

C13_LZW_RejectsInvalidCode ==
    LZW_Decoded =>
        /\ (\E n \in 1..Len(lzw_codes) : LZW_InvalidAt(lzw_codes, n))
              => /\ lzw_decoded.raised # "none"
                 /\ lzw_decoded.value = <<>>
        /\ \A n \in 1..Len(lzw_codes) :
              (lzw_codes[n] \notin 0..(254 + n))
                  => \E k \in 1..n : LZW_InvalidAt(lzw_codes, k)

\* 258 arrives second, when the decoder's next free code is 256.
C13_Witness ==
    /\ lzw_pc = "decoded_codes"
    /\ lzw_codes = <<65, 258>>
    /\ LZW_InvalidAt(lzw_codes, 2)
    /\ lzw_decoded = Raise("ValueError")

\* Every code encode(text) emits is below next_code at the moment it is
\* appended to result, in the loop and in the final flush of current_c.
LZW_EmittedBelowNextCode(text) ==
    /\ \A i \in 1..Len(text) :
          LET before == LZW_encode_loop(SubSeq(text, 1, i - 1))
              after == LZW_encode_step(before, text[i])
          IN  Len(after.result) > Len(before.result)
                  => after.result[Len(after.result)] < before.next_code
    /\ LET st == LZW_encode_loop(text)
       IN  (st.current_c # <<>> /\ st.current_c \in DOMAIN st.dictionary)
               => st.dictionary[st.current_c] < st.next_code

\* While decoding codes, some code is no key of the dictionary and equals
\* next_code: the branch of decode for an entry not created yet is taken.
LZW_NotYetCreatedTaken(codes) ==
    \E n \in 2..Len(codes) :
        LET st == LZW_decode_loop(codes, n - 1, 256)
        IN  /\ st.raised = "none"
            /\ codes[n] \notin DOMAIN st.dictionary
            /\ codes[n] = st.next_code

LZW_ExampleDecoded == lzw_pc = "decoded" /\ lzw_text = LZW_Example

\* C14 as stated: encoding TOBEORNOTTOBEORTOBEORNOT gives a finite list of
\* codes, each below the encoder's next free code when it is emitted; decode
\* returns the input; and while decoding, the branch for a code equal to the
\* decoder's next free code is taken at least once.
C14_Original_NotYetCreatedTaken ==
    LZW_ExampleDecoded =>
        /\ lzw_ret.raised = "none"
        /\ LZW_EmittedBelowNextCode(lzw_text)
        /\ lzw_decoded = Return(lzw_text)
        /\ LZW_NotYetCreatedTaken(lzw_codes)

\* C14: LZW standard scenario.  Encoding TOBEORNOTTOBEORTOBEORNOT gives the 16
\* codes 84 79 66 69 79 82 78 79 84 256 258 260 265 259 261 263, each below
\* the encoder's next free code when it is emitted; decode returns the input;
\* and every code is already a key of the decoder's dictionary when it
\* arrives, so the branch for a code equal to the decoder's next free code is
\* never taken for this input.
C14_LZW_StandardScenario ==
    LZW_ExampleDecoded =>
        /\ lzw_ret.raised = "none"
        /\ Len(lzw_ret.codes) = 16
        /\ LZW_EmittedBelowNextCode(lzw_text)
        /\ lzw_decoded = Return(lzw_text)
        /\ ~LZW_NotYetCreatedTaken(lzw_codes)

C14_Witness ==
    /\ LZW_ExampleDecoded
    /\ lzw_codes = <<84, 79, 66, 69, 79, 82, 78, 79, 84, 256, 258, 260, 265,
                     259, 261, 263>>
    /\ lzw_decoded.value = LZW_Example

\* The codes a dictionary of encode holds.
LZW_Values(dictionary) == {dictionary[k] : k \in DOMAIN dictionary}

\* C17: LZW dictionary growth.  At every step of encode the values of the
\* dictionary are exactly the codes 0..next_code-1, each held by one key; a
\* step that adds an entry gives it the code 256 + (number of entries added
\* before); and for a non-empty input over code points 0..255 the returned
\* dictionary has 256 + (number of emitted codes - 1) entries.
C17_LZW_DictionaryGrowth ==
    lzw_pc \in {"encoded", "raised", "decoded"} =>
        /\ \A i \in 0..Len(lzw_text) :
              LET st == LZW_encode_loop(SubSeq(lzw_text, 1, i))
              IN  /\ LZW_Values(st.dictionary) = 0..(st.next_code - 1)
                  /\ Cardinality(DOMAIN st.dictionary) = st.next_code
        /\ \A i \in 1..Len(lzw_text) :
              LET before == LZW_encode_loop(SubSeq(lzw_text, 1, i - 1))
                  after == LZW_encode_step(before, lzw_text[i])
                  added == DOMAIN after.dictionary \ DOMAIN before.dictionary
              IN  /\ Cardinality(added) <= 1
                  /\ \A k \in added :
                        after.dictionary[k]
                            = 256 + (Cardinality(DOMAIN before.dictionary) - 256)
                  /\ \A k \in DOMAIN before.dictionary :
                        after.dictionary[k] = before.dictionary[k]
                  /\ Len(after.result) - Len(before.result) = Cardinality(added)
        /\ (lzw_text # <<>> /\ Latin1(lzw_text))
              => /\ lzw_ret.raised = "none"
                 /\ Cardinality(DOMAIN lzw_ret.dictionary)
                        = 256 + (Len(lzw_ret.codes) - 1)

\* TOBEORNOTTOBEORTOBEORNOT: 16 codes, 15 new entries, the first one TO = 256
\* and the last one RNO = 270.
C17_Witness ==
    /\ lzw_pc = "encoded"
    /\ lzw_text = LZW_Example
    /\ Len(lzw_ret.codes) = 16
    /\ Cardinality(DOMAIN lzw_ret.dictionary) = 271
    /\ lzw_ret.dictionary[<<84, 79>>] = 256
    /\ lzw_ret.dictionary[<<82, 78, 79>>] = 270

\* dec, from codes to strings, is the inverse of enc, from strings to codes.
LZW_IsInverse(dec, enc) ==
    /\ DOMAIN dec = LZW_Values(enc)
    /\ \A k \in DOMAIN enc : dec[enc[k]] = k
    /\ Cardinality(DOMAIN dec) = Cardinality(DOMAIN enc)

\* C18: LZW lock-step dictionaries.  For every input over code points 0..255,
\* after encode and decode of its list of codes, the decoder's dictionary is
\* the inverse of the encoder's; and after the decoder has processed the j-th
\* code, j >= 2, its keys are 0..256+j-2 and its entries 256..256+j-2 are the
\* strings to which the encoder gave those codes, its first j-1 new entries.
C18_LZW_LockStepDictionaries ==
    (lzw_pc = "decoded" /\ Latin1(lzw_text)) =>
        LET enc == lzw_ret.dictionary
        IN  /\ lzw_decoded.raised = "none"
            /\ LZW_IsInverse(
                   LZW_decode_dictionary(lzw_codes, Len(lzw_codes), 256), enc)
            /\ \A j \in 2..Len(lzw_codes) :
                  LET dec == LZW_decode_dictionary(lzw_codes, j, 256)
                  IN  /\ DOMAIN dec = 0..(256 + j - 2)
                      /\ \A c \in 256..(256 + j - 2) :
                            /\ dec[c] \in DOMAIN enc
                            /\ enc[dec[c]] = c

\* AAAAAA is encoded as 65 256 257: the decoder creates AA = 256 and
\* AAA = 257 from those very codes, and ends with the encoder's two entries.
C18_Witness ==
    /\ lzw_pc = "decoded"
    /\ lzw_text = <<65, 65, 65, 65, 65, 65>>
    /\ lzw_codes = <<65, 256, 257>>
    /\ LET dec == LZW_decode_dictionary(lzw_codes, Len(lzw_codes), 256)
       IN  /\ dec[256] = <<65, 65>>
           /\ dec[257] = <<65, 65, 65>>
           /\ lzw_ret.dictionary[<<65, 65, 65>>] = 257
           /\ Cardinality(DOMAIN dec) = 258

\* C19: LZW encode on symbols outside the initial dictionary.  For every
\* input with at least one symbol whose code point is above 255, wherever it
\* stands, encode raises KeyError and returns no codes; and at no step of the
\* loop does result hold the code of a string with such a symbol.
C19_LZW_EncodeRejectsWideSymbol ==
    (lzw_pc \in {"encoded", "raised", "decoded"} /\ ~Latin1(lzw_text)) =>
        /\ lzw_pc = "raised"
        /\ lzw_ret.raised = "KeyError"
        /\ lzw_ret.codes = <<>>
        /\ \A i \in 0..Len(lzw_text) :
              LET st == LZW_encode_loop(SubSeq(lzw_text, 1, i))
              IN  \A n \in 1..Len(st.result) :
                      \A k \in DOMAIN st.dictionary :
                          st.dictionary[k] = st.result[n] => Latin1(k)

\* "A€B": A is emitted, A€ becomes entry 256, and the lookup of the
\* euro sign alone raises at the third character.
C19_Witness ==
    /\ lzw_pc = "raised"
    /\ lzw_text = <<65, 8364, 66>>
    /\ lzw_ret.raised = "KeyError"
    /\ LZW_encode_loop(<<65, 8364>>).result = <<65>>
    /\ LZW_encode_loop(<<65, 8364>>).dictionary[<<65, 8364>>] = 256

\* The wide symbol first, and last: the lookup of the empty current_c, and
\* the final flush, raise as well.
C19_WitnessFirstLast ==
    /\ lzw_pc = "raised"
    /\ lzw_text \in {<<8364>>, <<65, 66, 8364>>}

\* C5: empty input is not an error for any codec.  RunLengthEncoding.encode("")
\* and decode(""), HuffmanCoding.compress("") followed by decode, and
\* LZWCoding.encode("") followed by decode all return empty output without
\* raising.
C5_EmptyInputNoError ==
    /\ (rle_pc # "idle" /\ rle_data = <<>>)
          => /\ rle_encoded = <<>>
             /\ rle_pc = "decoded" => rle_decoded = Return(<<>>)
    /\ (huff_pc # "idle" /\ huff_text = <<>>)
          => /\ huff_ret.raised = "none"
             /\ huff_ret.encoded = <<>>
             /\ huff_pc = "decoded" => huff_decoded = Return(<<>>)
    /\ (lzw_pc # "idle" /\ lzw_text = <<>>)
          => /\ lzw_ret.raised = "none"
             /\ lzw_ret.codes = <<>>
             /\ lzw_pc = "decoded" => lzw_decoded = Return(<<>>)

-----------------------------------------------------------------------------
(* app.py: the Compress and Decompress buttons in lossless mode *)

\* None, and a value that is not None.
None == <<>>
Some(v) == <<v>>

\* The length of the well-formed UTF-8 sequence at the head of data, 0 when
\* there is none.
utf8_len(data) ==
    LET b1 == data[1]
        cont(i) == Len(data) >= i /\ data[i] \in 128..191
    IN  IF b1 < 128 THEN 1
        ELSE IF b1 \in 194..223 /\ cont(2) THEN 2
        ELSE IF /\ b1 \in 224..239 /\ cont(2) /\ cont(3)
                /\ (b1 = 224 => data[2] >= 160)
                /\ (b1 = 237 => data[2] <= 159) THEN 3
        ELSE IF /\ b1 \in 240..244 /\ cont(2) /\ cont(3) /\ cont(4)
                /\ (b1 = 240 => data[2] >= 144)
                /\ (b1 = 244 => data[2] <= 143) THEN 4
        ELSE 0

\* The code point of the sequence of n bytes at the head of data.
utf8_char(data, n) ==
    IF n = 1 THEN data[1]
    ELSE IF n = 2 THEN (data[1] - 192) * 64 + (data[2] - 128)
    ELSE IF n = 3
    THEN (data[1] - 224) * 4096 + (data[2] - 128) * 64 + (data[3] - 128)
    ELSE (data[1] - 240) * 262144 + (data[2] - 128) * 4096
             + (data[3] - 128) * 64 + (data[4] - 128)

\* data.decode('utf-8', errors=errors): a byte that starts no well-formed
\* sequence is dropped under 'ignore' and raises under 'strict'.
RECURSIVE bytes_decode(_, _)
bytes_decode(data, errors) ==
    IF data = <<>> THEN Return(<<>>)
    ELSE LET n == utf8_len(data)
         IN  IF n = 0
             THEN IF errors = "ignore" THEN bytes_decode(Tail(data), errors)
                  ELSE Raise("UnicodeDecodeError")
             ELSE LET rest == bytes_decode(SubSeq(data, n + 1, Len(data)), errors)
                  IN  IF rest.raised # "none" THEN rest
                      ELSE Return(<<utf8_char(data, n)>> \o rest.value)

\* s.encode('utf-8'), for s without surrogates (every string here comes out
\* of bytes_decode or of a codec applied to such strings).
RECURSIVE str_encode(_)
str_encode(s) ==
    IF s = <<>> THEN <<>>
    ELSE LET c == s[1]
             head == IF c < 128 THEN <<c>>
                     ELSE IF c < 2048
                     THEN <<192 + (c \div 64), 128 + (c % 64)>>
                     ELSE IF c < 65536
                     THEN <<224 + (c \div 4096), 128 + ((c \div 64) % 64),
                            128 + (c % 64)>>
                     ELSE <<240 + (c \div 262144), 128 + ((c \div 4096) % 64),
                            128 + ((c \div 64) % 64), 128 + (c % 64)>>
         IN  head \o str_encode(Tail(s))

\* str.isspace() of one character, and s.strip().
isspace(c) ==
    c \in (9..13) \cup (28..32) \cup {133, 160, 5760} \cup (8192..8202)
          \cup {8232, 8233, 8239, 8287, 12288}

RECURSIVE strip(_)
strip(s) ==
    IF s = <<>> THEN s
    ELSE IF isspace(s[1]) THEN strip(Tail(s))
    ELSE IF isspace(s[Len(s)]) THEN strip(SubSeq(s, 1, Len(s) - 1))
    ELSE s

\* " ".join(items) for a list of strings.
RECURSIVE join(_)
join(items) ==
    IF items = <<>> THEN <<>>
    ELSE IF Len(items) = 1 THEN items[1]
    ELSE items[1] \o <<32>> \o join(Tail(items))

RECURSIVE sum(_)
sum(numbers) == IF numbers = <<>> THEN 0 ELSE numbers[1] + sum(Tail(numbers))

\* max(2, int(avg_value)) with avg_value = sum / len, or 1 for no numbers.
App_m_param(numbers) ==
    LET avg_value == IF numbers # <<>> THEN sum(numbers) \div Len(numbers) ELSE 1
    IN  IF avg_value > 2 THEN avg_value ELSE 2

\* bytes(decoded_numbers): ValueError unless every number is in range(256).
bytes(numbers) ==
    IF \A i \in 1..Len(numbers) : numbers[i] \in 0..255
    THEN Return(numbers) ELSE Raise("ValueError")

Techniques == {"RLE", "Huffman", "Golomb", "LZW"}

\* The uploaded files, as bytes: an empty file; "a"; a file of control
\* characters ending in a newline.  Every byte but the last is small: the RLE
\* branch of Decompress reads the Golomb codewords before the last one as run
\* lengths in decimal, and the byte of a letter there gives a run of millions
\* of spaces.
App_Files == {<<>>, <<97>>, <<1, 1, 2, 10>>}

\* What the technique's branch of the compression logic writes to the session
\* state for the bytes data: a function from the names of the fields written
\* to their values, empty when the branch raises.
App_compress_writes(technique, data) ==
    IF technique = "RLE"
    THEN LET text == strip(bytes_decode(data, "ignore").value)
             encoded == RLE_encode(text)
         IN  [f \in {"compressed_data"} |-> Some(str_encode(encoded))]
    ELSE IF technique = "Huffman"
    THEN LET text == bytes_decode(data, "ignore").value
             ret == Huff_compress(text)
         IN  IF ret.raised # "none" THEN <<>>
             ELSE [f \in {"compressed_data", "huffman_codes"} |->
                      IF f = "compressed_data"
                      THEN Some(str_encode(ret.encoded))
                      ELSE Some(ret.codes)]
    ELSE IF technique = "Golomb"
    THEN LET numbers == data
             m_param == App_m_param(numbers)
             codewords == [i \in 1..Len(numbers) |->
                              Golomb_encode(numbers[i], m_param).value]
         IN  [f \in {"compressed_data", "golomb_m", "golomb_codewords"} |->
                 IF f = "compressed_data" THEN Some(str_encode(join(codewords)))
                 ELSE IF f = "golomb_m" THEN Some(m_param)
                 ELSE Some(codewords)]
    ELSE LET text == bytes_decode(data, "ignore").value
             enc == LZW_encode(text)
             decoded == IF enc.raised = "none" THEN LZW_decode(enc.codes, 256)
                        ELSE Raise(enc.raised)
         IN  IF decoded.raised # "none" THEN <<>>
             ELSE [f \in {"compressed_data", "lzw_codes"} |->
                      IF f = "compressed_data"
                      THEN Some(str_encode(
                               join([i \in 1..Len(enc.codes) |-> str(enc.codes[i])])))
                      ELSE Some(enc.codes)]

\* The value of a field after the writes w.
App_after(w, field, old) == IF field \in DOMAIN w THEN w[field] ELSE old

\* What the technique's branch of the decompression logic stores in
\* decompressed_data, or None when it shows an error or raises.
App_decompress_store(technique) ==
    IF technique = "RLE"
    THEN LET encoded_text == bytes_decode(app_compressed_data[1], "strict")
             decoded == IF encoded_text.raised = "none"
                        THEN RLE_decode(encoded_text.value)
                        ELSE encoded_text
         IN  IF decoded.raised # "none" THEN None
             ELSE Some(str_encode(decoded.value))
    ELSE IF technique = "Huffman"
    THEN IF app_huffman_codes = None THEN None
         ELSE LET encoded_binary == bytes_decode(app_compressed_data[1], "strict")
                  decoded_text == IF encoded_binary.raised = "none"
                                  THEN Huff_decode(encoded_binary.value,
                                                   app_huffman_codes[1])
                                  ELSE encoded_binary
              IN  IF decoded_text.raised # "none" THEN None
                  ELSE Some(str_encode(decoded_text.value))
    ELSE IF technique = "Golomb"
    THEN IF app_golomb_m = None \/ app_golomb_codewords = None THEN None
         ELSE LET m == app_golomb_m[1]
                  codewords == app_golomb_codewords[1]
                  decoded_bytes ==
                      bytes([i \in 1..Len(codewords) |->
                                Golomb_decode(codewords[i], m)])
              IN  IF decoded_bytes.raised # "none" THEN None
                  ELSE Some(decoded_bytes.value)
    ELSE IF app_lzw_codes # None /\ app_lzw_codes[1] # <<>>
         THEN LET decoded_text == LZW_decode(app_lzw_codes[1], 256)
              IN  IF decoded_text.raised # "none" THEN None
                  ELSE Some(str_encode(decoded_text.value))
         ELSE None

\* The first run of the script: every field None, the selectbox on its first
\* option.
App_Init ==
    /\ app_technique = "RLE"
    /\ app_original_data = None
    /\ app_compressed_data = None
    /\ app_huffman_codes = None
    /\ app_lzw_codes = None
    /\ app_golomb_m = None
    /\ app_golomb_codewords = None
    /\ app_decompressed_data = None
    /\ app_written = {}
    /\ app_compress_technique = "None"
    /\ app_stored = FALSE

\* The user picks another technique: the script runs again with no button
\* pressed and touches no field but technique_used.
App_SelectTechnique ==
    \E technique \in Techniques :
        /\ technique # app_technique
        /\ app_technique' = technique
        /\ app_stored' = FALSE
        /\ UNCHANGED <<app_original_data, app_compressed_data,
                       app_huffman_codes, app_lzw_codes, app_golomb_m,
                       app_golomb_codewords, app_decompressed_data,
                       app_written, app_compress_technique>>
        /\ UNCHANGED notApp

\* A Compress click with no file uploaded: an error message.
App_CompressNoFile ==
    /\ app_written' = {}
    /\ app_compress_technique' = app_technique
    /\ app_stored' = FALSE
    /\ UNCHANGED <<app_technique, app_original_data, app_compressed_data,
                   app_huffman_codes, app_lzw_codes, app_golomb_m,
                   app_golomb_codewords, app_decompressed_data>>
    /\ UNCHANGED notApp

\* A Compress click on an uploaded file: original_data is written, then the
\* branch of the selected technique runs; an exception is caught and shown,
\* and leaves the other fields as they were.
App_Compress ==
    \E data \in App_Files :
        LET w == App_compress_writes(app_technique, data)
        IN  /\ app_original_data' = Some(data)
            /\ app_compressed_data'
                   = App_after(w, "compressed_data", app_compressed_data)
            /\ app_huffman_codes'
                   = App_after(w, "huffman_codes", app_huffman_codes)
            /\ app_lzw_codes' = App_after(w, "lzw_codes", app_lzw_codes)
            /\ app_golomb_m' = App_after(w, "golomb_m", app_golomb_m)
            /\ app_golomb_codewords'
                   = App_after(w, "golomb_codewords", app_golomb_codewords)
            /\ app_written' = {"original_data"} \cup DOMAIN w
            /\ app_compress_technique' = app_technique
            /\ app_stored' = FALSE
            /\ UNCHANGED <<app_technique, app_decompressed_data>>
            /\ UNCHANGED notApp

\* A Decompress click.
App_Decompress ==
    LET stored == IF app_compressed_data = None THEN None
                  ELSE App_decompress_store(app_technique)
    IN  /\ app_decompressed_data'
               = IF stored = None THEN app_decompressed_data ELSE stored
        /\ app_stored' = (stored # None)
        /\ UNCHANGED <<app_technique, app_original_data, app_compressed_data,
                       app_huffman_codes, app_lzw_codes, app_golomb_m,
                       app_golomb_codewords, app_written,
                       app_compress_technique>>
        /\ UNCHANGED notApp

\* The fields the technique's branch of Decompress decodes besides
\* compressed_data.
App_SideChannel(technique) ==
    IF technique = "Huffman" THEN {"huffman_codes"}
    ELSE IF technique = "Golomb" THEN {"golomb_m", "golomb_codewords"}
    ELSE IF technique = "LZW" THEN {"lzw_codes"}
    ELSE {}

\* C20: UI session state consistency.  After any sequence of technique
\* selections, Compress clicks and Decompress clicks, whenever a Decompress
\* click stores decompressed_data, compressed_data and the side channel of the
\* selected technique were all written by the most recent Compress click,
\* and that click used the technique now selected.
C20_App_SessionStateConsistency ==
    app_stored =>
        /\ "compressed_data" \in app_written
        /\ App_SideChannel(app_technique) \subseteq app_written
        /\ app_compress_technique = app_technique

-----------------------------------------------------------------------------
Init == RLE_Init /\ Huff_Init /\ Golomb_Init /\ LZW_Init /\ Conc_Init
        /\ App_Init

RLE_Next == RLE_Encode \/ RLE_Decode

Huff_Next == Huff_Compress \/ Huff_Decode \/ Huff_DecodeTruncated

Golomb_Next == Golomb_Encode \/ Golomb_Decode

LZW_Next == LZW_Encode \/ LZW_Decode \/ LZW_DecodeCodes

Conc_Next == Conc_Call \/ Conc_AssignCodes \/ Conc_Encode \/ Conc_Return

App_Next ==
    App_SelectTechnique \/ App_CompressNoFile \/ App_Compress \/ App_Decompress

Next ==
    RLE_Next \/ Huff_Next \/ Golomb_Next \/ LZW_Next \/ Conc_Next \/ App_Next

\* One specification per class: the classes share no state.
SpecRLE == Init /\ [][RLE_Next]_vars

SpecHuffman == Init /\ [][Huff_Next]_vars

SpecHuffmanConcurrent == Init /\ [][Conc_Next]_vars

SpecGolomb == Init /\ [][Golomb_Next]_vars

SpecApp == Init /\ [][App_Next]_vars

SpecLZW == Init /\ [][LZW_Next]_vars

Spec == Init /\ [][Next]_vars

=============================================================================
